---- MODULE Spec2Model ----
(***************************************************************************)
(* Model of the eip4844-playground scripts.                                *)
(*                                                                         *)
(* Five scripts are modelled, one run of one script per behaviour:         *)
(*   "index"         src/src/index.ts            experiments 1..6          *)
(*   "experiment"    src/unnamed/part_000:69-461  experiments 1..8          *)
(*   "ethers"        src/unnamed/part_000:1-67    main                      *)
(*   "wasm"          src/unnamed/part_000:463-700                           *)
(*   "wasmNoSidecar" src/unnamed/part_000:702-871                           *)
(*                                                                         *)
(* The KZG libraries, the wallet and the RPC client are external: each of  *)
(* their results is a nondeterministic choice over a small set of values   *)
(* (a right one, a wrong one, a rejection).  An await is two steps: the    *)
(* step that issues the call and suspends, and the step that resumes with  *)
(* the call's outcome.  JavaScript strings are sequences of one-character  *)
(* strings, byte arrays are sequences of 0..255 (byte k is element k+1),   *)
(* arrays of cells are functions on 0..n-1.                                *)
(***************************************************************************)
EXTENDS Integers, Sequences, FiniteSets, TLC

VARIABLES
  script,          \* which script file runs
  entry,           \* the function the script's last line invokes
  privateKeySet,   \* process.env.PRIVATE_KEY is a non-empty string
  sendTransaction, \* the parameter of experimentWithBlob
  eip,             \* process.argv[2] of the ethers script
  pc,              \* position in the script
  error,           \* message of the error that ended the run, NoError if none
  inflight,        \* asynchronous calls issued and not yet settled
  calls,           \* trace of library calls: <<name, phase>>
  log,             \* console output, one tag per line
  clock,           \* milliseconds since start-up
  timerDue,        \* when the pending setTimeout fires, -1 if none
  versionedHash,   \* experimentWithBlob: let versionedHash
  commitment,      \* experimentWithBlob: let commitment
  proof,           \* experimentWithBlob: let proof
  locals           \* block-local values, by block

vars ==
  <<script, entry, privateKeySet, sendTransaction, eip, pc, error, inflight,
    calls, log, clock, timerDue, versionedHash, commitment, proof, locals>>

config ==
  <<script, entry, privateKeySet, sendTransaction, eip>>

hexVars ==
  <<versionedHash, commitment, proof>>

timeVars ==
  <<clock, timerDue>>

(***************************************************************************)
(* Bounds of the model.                                                    *)
(***************************************************************************)
\* bytes in a modelled sha256 digest (32 in the libraries)
HashLen ==
  3

\* bytes in a modelled commitment or proof (48 in the libraries)
CommitmentLen ==
  2

\* bytes in a modelled cell (2048 in the libraries)
CellLen ==
  1

(***************************************************************************)
(* Strings and bytes.                                                      *)
(***************************************************************************)
NoError ==
  ""

HexDigits ==
  <<"0", "1", "2", "3", "4", "5", "6", "7", "8", "9", "a", "b", "c", "d", "e", "f">>

UpperDigits ==
  <<"0", "1", "2", "3", "4", "5", "6", "7", "8", "9", "A", "B", "C", "D", "E", "F">>

\* String.prototype.toLowerCase on one character
LowerChar(c) ==
  IF \E n \in 11..16 : UpperDigits[n] = c
  THEN HexDigits[CHOOSE n \in 11..16 : UpperDigits[n] = c]
  ELSE IF c = "X" THEN "x" ELSE c

UpperChar(c) ==
  IF \E n \in 11..16 : HexDigits[n] = c
  THEN UpperDigits[CHOOSE n \in 11..16 : HexDigits[n] = c]
  ELSE c

toLowerCase(s) ==
  [i \in 1..Len(s) |-> LowerChar(s[i])]

\* the same hex string with its digits in upper case (the 0x prefix kept)
UpperHex(s) ==
  [i \in 1..Len(s) |-> IF i <= 2 THEN s[i] ELSE UpperChar(s[i])]

\* viem bytesToHex: "0x" followed by two lower-case digits per byte
bytesToHex(b) ==
  <<"0", "x">> \o
  [i \in 1..(2 * Len(b)) |->
     IF i % 2 = 1 THEN HexDigits[(b[(i + 1) \div 2] \div 16) + 1]
                  ELSE HexDigits[(b[i \div 2] % 16) + 1]]

\* value of one hex digit, either case
NibbleOf(c) ==
  (CHOOSE n \in 1..16 : HexDigits[n] = LowerChar(c)) - 1

\* viem hexToBytes: skips the "0x" prefix, reads two digits per byte
hexToBytes(h) ==
  [i \in 1..((Len(h) - 2) \div 2) |->
     16 * NibbleOf(h[2 * i + 1]) + NibbleOf(h[2 * i + 2])]

RECURSIVE SumBytes(_)
SumBytes(b) ==
  IF b = <<>> THEN 0 ELSE Head(b) + SumBytes(Tail(b))

\* viem sha256 on bytes: an opaque deterministic digest of HashLen bytes
sha256(b) ==
  [i \in 1..HashLen |-> (SumBytes(b) * 7 + i * 59 + Len(b) * 101) % 256]

\* hexToBytes('0x01')
VERSIONED_HASH_VERSION_KZG ==
  <<1>>

\* _versionedHash = hexToBytes(sha256(c)); _versionedHash[0] = VERSIONED_HASH_VERSION_KZG[0]
ManualVersionedHash(c) ==
  [sha256(c) EXCEPT ![1] = VERSIONED_HASH_VERSION_KZG[1]]

\* the comparison without the lower-casing
equalHexLiteral(a, b) ==
  a = b

equalHexSelf(a, b) ==
  toLowerCase(a) = toLowerCase(a)

equalHex(a, b) ==
  toLowerCase(a) = toLowerCase(b)

(***************************************************************************)
(* Values the external libraries can return.                               *)
(***************************************************************************)
CommitmentA ==
  [i \in 1..CommitmentLen |-> (171 + i) % 256]

CommitmentB ==
  [i \in 1..CommitmentLen |-> (77 + 3 * i) % 256]

Commitments ==
  {CommitmentA, CommitmentB}

ProofA ==
  [i \in 1..CommitmentLen |-> (188 + 5 * i) % 256]

ProofB ==
  [i \in 1..CommitmentLen |-> (30 + 7 * i) % 256]

Proofs ==
  {ProofA, ProofB}

\* versioned hashes a node or viem may report: the hash of either commitment,
\* with lower-case or upper-case digits
HashCandidates ==
  UNION {{bytesToHex(ManualVersionedHash(c)), UpperHex(bytesToHex(ManualVersionedHash(c)))} :
           c \in Commitments}

\* what a missing property reads as (transaction.blobVersionedHashes absent)
Undefined ==
  <<"undefined">>

\* toBlobs(...).length
BlobCounts ==
  {1, 2}

Ev(name, phase) ==
  <<name, phase>>

Scripts ==
  {"index", "experiment", "ethers", "wasm", "wasmNoSidecar"}

IsExperiment ==
  script \in {"index", "experiment"}

\* the functions a script file defines; the call on its last line starts one of
\* them (the files are edited to call another one of their functions)
EntriesOf(s) ==
  CASE s \in {"index", "experiment"} -> {"experimentWithBlob"}
    [] s = "ethers" -> {"main"}
    [] s = "wasm" -> {"signRawTransaction", "signTransaction",
                      "KZGProofVerification", "makeBlobVersionedHashes"}
    [] s = "wasmNoSidecar" -> {"signRawTransaction", "signTransaction"}

EipArgs ==
  {"4844", "7594", "other", "none"}

Init ==
  /\ script \in Scripts
  /\ entry \in EntriesOf(script)
  /\ privateKeySet \in BOOLEAN
  /\ sendTransaction \in (IF script \in {"index", "experiment"} THEN BOOLEAN ELSE {FALSE})
  /\ eip \in (IF script = "ethers" THEN EipArgs ELSE {"none"})
  /\ pc = "start"
  /\ error = NoError
  /\ inflight = {}
  /\ calls = <<>>
  /\ log = <<>>
  /\ clock = 0
  /\ timerDue = -1
  /\ versionedHash = <<"0", "x">>
  /\ commitment = <<"0", "x">>
  /\ proof = <<"0", "x">>
  /\ locals = <<>>

(***************************************************************************)
(* throw new Error(msg) / a rejected await: with no try/catch anywhere,    *)
(* the async function stops at the throw.  err = NoError: the run goes on  *)
(* to `next`.                                                              *)
(***************************************************************************)
ThrowIfContinuing(err, next) ==
  /\ pc' = next
  /\ error' = IF err = NoError THEN error ELSE err

ThrowIf(err, next) ==
  IF err = NoError
  THEN pc' = next /\ error' = error
  ELSE pc' = "thrown" /\ error' = err

\* an awaited promise rejects: the rejection propagates out of the function
Rejects(call) ==
  /\ pc' = "thrown"
  /\ error' = "rejected"
  /\ inflight' = inflight \ {call}
  /\ calls' = Append(calls, Ev(call, "reject"))
  /\ UNCHANGED <<config, log, timeVars, hexVars, locals>>

(***************************************************************************)
(* Module top level of the viem scripts: if (!process.env.PRIVATE_KEY)     *)
(* throw, then the call on the script's last line.                         *)
(***************************************************************************)
CheckPrivateKey ==
  /\ pc = "start"
  /\ script # "ethers"
  /\ ThrowIf(IF privateKeySet THEN NoError ELSE "PRIVATE_KEY is not set", entry)
  /\ UNCHANGED <<config, inflight, calls, log, timeVars, hexVars, locals>>

(***************************************************************************)
(* experimentWithBlob: set-up, up to `await loadKZG()`.                    *)
(***************************************************************************)
Setup ==
  /\ pc = "experimentWithBlob"
  /\ calls' = calls \o <<Ev("privateKeyToAccount", "call"),
                         Ev("createWalletClient", "call"),
                         Ev("createPublicClient", "call"),
                         Ev("cKzg.loadTrustedSetup", "call"),
                         Ev("loadKZG", "call")>>
  /\ inflight' = inflight \cup {"loadKZG"}
  /\ pc' = "await loadKZG"
  /\ UNCHANGED <<config, error, log, timeVars, hexVars, locals>>

\* the same step without the blob count check
LoadedKZGNotChecking ==
  /\ pc = "await loadKZG"
  /\ IsExperiment
  /\ \/ Rejects("loadKZG")
     \/ \E n \in BlobCounts :
          /\ inflight' = inflight \ {"loadKZG"}
          /\ calls' = calls \o <<Ev("loadKZG", "return"),
                                 Ev("wasmKzg.loadTrustedSetup", "call"),
                                 Ev("toBlobs", "call")>>
          /\ locals' = ("setup" :> [blobs |-> n]) @@ locals
          /\ pc' = "experiment 1"
          /\ UNCHANGED <<config, error, log, timeVars, hexVars>>

\* loadKZG settles; wasmKzg.loadTrustedSetup, toBlobs and the blob count check
LoadedKZG ==
  /\ pc = "await loadKZG"
  /\ IsExperiment
  /\ \/ Rejects("loadKZG")
     \/ \E n \in BlobCounts :
          /\ inflight' = inflight \ {"loadKZG"}
          /\ calls' = calls \o <<Ev("loadKZG", "return"),
                                 Ev("wasmKzg.loadTrustedSetup", "call"),
                                 Ev("toBlobs", "call")>>
          /\ locals' = ("setup" :> [blobs |-> n]) @@ locals
          /\ ThrowIf(IF n # 1 THEN "Only one blob is assumed in this example"
                              ELSE NoError,
                     "experiment 1")
          /\ UNCHANGED <<config, log, timeVars, hexVars>>

(***************************************************************************)
(* experiment 1: send blob transaction using c kzg.                        *)
(***************************************************************************)
\* the propagation delay of experiment 1, in milliseconds
PropagationDelay ==
  5000

\* a timer that resolves at once, whatever ms is
timeoutImmediately(ms) ==
  /\ timerDue' = clock
  /\ clock' = clock

\* timeout(ms): a promise that setTimeout resolves after ms milliseconds
timeout(ms) ==
  /\ timerDue' = clock + ms
  /\ clock' = clock

\* commitment and proof by c-kzg, then `await client.prepareTransactionRequest`
Experiment1 ==
  /\ pc = "experiment 1"
  /\ \E c \in Commitments, p \in Proofs :
       /\ commitment' = bytesToHex(c)
       /\ proof' = bytesToHex(p)
  /\ calls' = calls \o <<Ev("cKzg.blobToKzgCommitment", "call"),
                         Ev("cKzg.computeBlobKzgProof", "call"),
                         Ev("prepareTransactionRequest", "call")>>
  /\ inflight' = inflight \cup {"prepareTransactionRequest"}
  /\ log' = Append(log, "### experiment 1")
  /\ pc' = "await prepareTransactionRequest"
  /\ UNCHANGED <<config, error, timeVars, versionedHash, locals>>

\* the request is back: versionedHash is taken from it, then `await account.signTransaction`
Experiment1Prepared ==
  /\ pc = "await prepareTransactionRequest"
  /\ IsExperiment
  /\ \/ Rejects("prepareTransactionRequest")
     \/ \E h \in HashCandidates :
          /\ versionedHash' = h
          /\ calls' = calls \o <<Ev("prepareTransactionRequest", "return"),
                                 Ev("signTransaction", "call")>>
          /\ inflight' = (inflight \ {"prepareTransactionRequest"}) \cup {"signTransaction"}
          /\ pc' = "await signTransaction"
          /\ UNCHANGED <<config, error, log, timeVars, commitment, proof, locals>>

\* the same step with the broadcast issued whatever the flag says
Experiment1SignedSending ==
  /\ pc = "await signTransaction"
  /\ IsExperiment
  /\ \/ Rejects("signTransaction")
     \/ /\ calls' = calls \o <<Ev("signTransaction", "return"),
                               Ev("sendRawTransaction", "call")>>
        /\ inflight' = (inflight \ {"signTransaction"}) \cup {"sendRawTransaction"}
        /\ log' = log \o <<"transaction", "raw transaction">>
        /\ pc' = "await sendRawTransaction"
        /\ UNCHANGED <<config, error, timeVars, hexVars, locals>>

\* the signed transaction is logged; if (sendTransaction) `await client.sendRawTransaction`
Experiment1Signed ==
  /\ pc = "await signTransaction"
  /\ IsExperiment
  /\ \/ Rejects("signTransaction")
     \/ /\ sendTransaction
        /\ calls' = calls \o <<Ev("signTransaction", "return"),
                               Ev("sendRawTransaction", "call")>>
        /\ inflight' = (inflight \ {"signTransaction"}) \cup {"sendRawTransaction"}
        /\ log' = log \o <<"transaction", "raw transaction">>
        /\ pc' = "await sendRawTransaction"
        /\ UNCHANGED <<config, error, timeVars, hexVars, locals>>
     \/ /\ ~sendTransaction
        /\ calls' = Append(calls, Ev("signTransaction", "return"))
        /\ inflight' = inflight \ {"signTransaction"}
        /\ log' = log \o <<"transaction", "raw transaction",
                           "note: please set sendTransaction to true", "", "">>
        /\ pc' = "experiment 2"
        /\ UNCHANGED <<config, error, timeVars, hexVars, locals>>

\* the same step with a rejected broadcast issued again
Experiment1SentRetrying ==
  /\ pc = "await sendRawTransaction"
  /\ IsExperiment
  /\ \/ /\ calls' = calls \o <<Ev("sendRawTransaction", "reject"),
                               Ev("sendRawTransaction", "call")>>
        /\ Len(calls) < 24
        /\ UNCHANGED <<config, pc, error, inflight, log, timeVars, hexVars, locals>>
     \/ /\ calls' = calls \o <<Ev("sendRawTransaction", "return"),
                               Ev("timeout", "call")>>
        /\ inflight' = (inflight \ {"sendRawTransaction"}) \cup {"timeout"}
        /\ log' = Append(log, "transaction result")
        /\ timeout(PropagationDelay)
        /\ pc' = "await timeout"
        /\ UNCHANGED <<config, error, hexVars, locals>>

\* the same step with the delay not awaited: the lookup is issued at once
Experiment1SentNotAwaiting ==
  /\ pc = "await sendRawTransaction"
  /\ IsExperiment
  /\ calls' = calls \o <<Ev("sendRawTransaction", "return"),
                         Ev("timeout", "call"),
                         Ev("getTransaction", "call")>>
  /\ inflight' = (inflight \ {"sendRawTransaction"}) \cup {"timeout", "getTransaction"}
  /\ log' = Append(log, "transaction result")
  /\ timeout(PropagationDelay)
  /\ pc' = "await getTransaction"
  /\ UNCHANGED <<config, error, hexVars, locals>>

\* the broadcast is back with a hash: it is logged, then `await timeout(5000)`
Experiment1Sent ==
  /\ pc = "await sendRawTransaction"
  /\ IsExperiment
  /\ \/ Rejects("sendRawTransaction")
     \/ /\ calls' = calls \o <<Ev("sendRawTransaction", "return"),
                               Ev("timeout", "call")>>
        /\ inflight' = (inflight \ {"sendRawTransaction"}) \cup {"timeout"}
        /\ log' = Append(log, "transaction result")
        /\ timeout(PropagationDelay)
        /\ pc' = "await timeout"
        /\ UNCHANGED <<config, error, hexVars, locals>>

\* the timer fires and resolves the promise: `await publicClient.getTransaction`
Experiment1Delayed ==
  /\ pc = "await timeout"
  /\ "timeout" \in inflight
  /\ clock' = timerDue
  /\ timerDue' = -1
  /\ calls' = calls \o <<Ev("timeout", "return"), Ev("getTransaction", "call")>>
  /\ inflight' = (inflight \ {"timeout"}) \cup {"getTransaction"}
  /\ pc' = "await getTransaction"
  /\ UNCHANGED <<config, error, log, hexVars, locals>>

\* the transaction is back: its first versioned hash is compared with the request's
Experiment1Fetched ==
  /\ pc = "await getTransaction"
  /\ "getTransaction" \in inflight
  /\ \/ Rejects("getTransaction")
     \/ \E h \in HashCandidates \cup {Undefined} :
          LET err == IF h = Undefined THEN "TypeError"
                     ELSE IF ~equalHex(versionedHash, h) THEN "Versioned hash mismatch"
                     ELSE NoError
          IN /\ calls' = Append(calls, Ev("getTransaction", "return"))
             /\ inflight' = inflight \ {"getTransaction"}
             /\ locals' = ("experiment 1" :> [fetched |-> h]) @@ locals
             /\ log' = IF err = NoError
                       THEN log \o <<"note: you can fetch blob data", "", "">>
                       ELSE log
             /\ ThrowIf(err, "experiment 2")
             /\ UNCHANGED <<config, timeVars, hexVars>>

(***************************************************************************)
(* experiment 2: check how to calculate blob versioned hash.               *)
(***************************************************************************)
\* the same block with its commitment declared without `const`: it overwrites the outer one
Experiment2Assigning ==
  /\ pc = "experiment 2"
  /\ \E c \in Commitments :
       LET h == ManualVersionedHash(c)
           err == IF ~equalHex(bytesToHex(h), versionedHash)
                  THEN "versioned hash mismatch" ELSE NoError
       IN /\ calls' = Append(calls, Ev("cKzg.blobToKzgCommitment", "call"))
          /\ commitment' = bytesToHex(c)
          /\ locals' = ("experiment 2" :> [commitment |-> c, _versionedHash |-> h]) @@ locals
          /\ log' = log \o <<"### experiment 2", "commitment",
                             "sha256-hashed commitment", "versioned hash">>
                        \o (IF err = NoError THEN <<"", "">> ELSE <<>>)
          /\ ThrowIf(err, "experiment 3")
  /\ UNCHANGED <<config, inflight, timeVars, versionedHash, proof>>

Experiment2 ==
  /\ pc = "experiment 2"
  /\ \E c \in Commitments :
       LET h == ManualVersionedHash(c)
           err == IF ~equalHex(bytesToHex(h), versionedHash)
                  THEN "versioned hash mismatch" ELSE NoError
       IN /\ calls' = Append(calls, Ev("cKzg.blobToKzgCommitment", "call"))
          /\ locals' = ("experiment 2" :> [commitment |-> c, _versionedHash |-> h]) @@ locals
          /\ log' = log \o <<"### experiment 2", "commitment",
                             "sha256-hashed commitment", "versioned hash">>
                        \o (IF err = NoError THEN <<"", "">> ELSE <<>>)
          /\ ThrowIf(err, "experiment 3")
  /\ UNCHANGED <<config, inflight, timeVars, hexVars>>

(***************************************************************************)
(* experiment 3: verification without proof, then with proof.              *)
(***************************************************************************)
\* process.hrtime(hrstart): [seconds, nanoseconds] elapsed since hrstart
hrtime ==
  {<<0, 3000000>>, <<0, 40000000>>, <<1, 500000000>>}

\* `... took ${hrend[1] / 1000000} milliseconds`: the block's timing as it is logged;
\* hrstart and hrend are block-scoped, so one entry serves the blocks in turn.
\* The sampled nanosecond parts are whole milliseconds, where / is exact.
Took(block, hrend, err) ==
  IF err = NoError
  THEN "timing block" :> [block |-> block, hrend |-> hrend, took |-> hrend[2] \div 1000000]
  ELSE <<>>

Experiment3WithoutProof ==
  /\ pc = "experiment 3"
  /\ \E c \in Commitments, hrend \in hrtime :
       LET h == ManualVersionedHash(c)
           err == IF ~equalHex(bytesToHex(h), versionedHash)
                  THEN "Versioned hash mismatch" ELSE NoError
       IN /\ calls' = Append(calls, Ev("cKzg.blobToKzgCommitment", "call"))
          /\ locals' = ("experiment 3 without proof" :>
                          [commitment |-> c, _versionedHash |-> h])
                       @@ Took("verification without proof", hrend, err) @@ locals
          /\ log' = Append(log, "### experiment 3")
                        \o (IF err = NoError THEN <<"verification without proof took">>
                                             ELSE <<>>)
          /\ ThrowIf(err, "experiment 3 with proof")
  /\ UNCHANGED <<config, inflight, timeVars, hexVars>>

Experiment3WithProof ==
  /\ pc = "experiment 3 with proof"
  /\ \E isValid \in BOOLEAN, hrend \in hrtime :
       LET h == ManualVersionedHash(hexToBytes(commitment))
           err == IF ~equalHex(bytesToHex(h), versionedHash) THEN "Versioned hash mismatch"
                  ELSE IF ~isValid THEN "Proof verification failed"
                  ELSE NoError
       IN /\ calls' = Append(calls, Ev("cKzg.verifyBlobKzgProof", "call"))
          /\ locals' = ("experiment 3 with proof" :>
                          [_versionedHash |-> h, isValid |-> isValid])
                       @@ Took("verification with proof", hrend, err) @@ locals
          /\ log' = log \o (IF err = NoError
                            THEN <<"verification with proof took", "", "">>
                            ELSE <<>>)
          /\ ThrowIf(err, "experiment 4")
  /\ UNCHANGED <<config, inflight, timeVars, hexVars>>

(***************************************************************************)
(* experiments 4 and 5: a KZG proof for one point, verified off chain and  *)
(* by the point evaluation precompile.                                     *)
(***************************************************************************)
\* hexToBytes(blob).slice(0, 32): the first field element of the blob
BlobHead ==
  [i \in 1..HashLen |-> IF i = 1 THEN 0 ELSE (103 + i) % 256]

\* hexToBytes(`0x${rootsOfUnity[3]}`).reverse().slice(0, 32)
RootOfUnity3 ==
  [i \in 1..HashLen |-> (29 * i + 2) % 256]

zBytes ==
  IF script = "index" THEN BlobHead ELSE RootOfUnity3

\* results of cKzg.computeKzgProof: <<proof, y>>, PointProof[0] and PointProof[1]
PointProofs ==
  {<<ProofA, [i \in 1..HashLen |-> (5 * i) % 256]>>,
   <<ProofB, [i \in 1..HashLen |-> (200 + i) % 256]>>}

\* cKzg.computeKzgProof(hexToBytes(blob), zBytes) in experiment 5: the library is a
\* function of its arguments, which are those of experiment 4, so is its result
computeKzgProof ==
  {pp \in PointProofs : /\ pp[1] = locals["experiment 4"].proofBytes
                        /\ pp[2] = locals["experiment 4"].yBytes}

RECURSIVE concat(_)
\* viem concat of hex values: one 0x, then the digits of each value
concat(hs) ==
  IF hs = <<>> THEN <<"0", "x">>
  ELSE concat(SubSeq(hs, 1, Len(hs) - 1)) \o SubSeq(hs[Len(hs)], 3, Len(hs[Len(hs)]))

Experiment4 ==
  /\ pc = "experiment 4"
  /\ \E PointProof \in PointProofs, isValid \in BOOLEAN :
       /\ locals' = ("experiment 4" :>
                       [commitment |-> hexToBytes(commitment), zBytes |-> zBytes,
                        yBytes |-> PointProof[2], proofBytes |-> PointProof[1],
                        isValid |-> isValid]) @@ locals
       /\ log' = log \o <<"### experiment 4", "arguments",
                          IF isValid THEN "result: true" ELSE "result: false", "", "">>
  /\ calls' = calls \o <<Ev("cKzg.computeKzgProof", "call"),
                         Ev("cKzg.verifyKzgProof", "call")>>
  /\ pc' = "experiment 5"
  /\ UNCHANGED <<config, error, inflight, timeVars, hexVars>>

\* the same block with the claimed value and the proof in each other's place
Experiment5ProofBeforeValue ==
  /\ pc = "experiment 5"
  /\ \E PointProof \in computeKzgProof :
       locals' = ("experiment 5" :>
                    [data |-> concat(<<versionedHash, bytesToHex(zBytes),
                                       bytesToHex(PointProof[1]), commitment,
                                       bytesToHex(PointProof[2])>>),
                     zBytes |-> zBytes, yBytes |-> PointProof[2],
                     proofBytes |-> PointProof[1]]) @@ locals
  /\ calls' = calls \o <<Ev("cKzg.computeKzgProof", "call"), Ev("call", "call")>>
  /\ inflight' = inflight \cup {"call"}
  /\ log' = Append(log, "### experiment 5")
  /\ pc' = "await call"
  /\ UNCHANGED <<config, error, timeVars, hexVars>>

Experiment5 ==
  /\ pc = "experiment 5"
  /\ \E PointProof \in computeKzgProof :
       locals' = ("experiment 5" :>
                    [data |-> concat(<<versionedHash, bytesToHex(zBytes),
                                       bytesToHex(PointProof[2]), commitment,
                                       bytesToHex(PointProof[1])>>),
                     zBytes |-> zBytes, yBytes |-> PointProof[2],
                     proofBytes |-> PointProof[1]]) @@ locals
  /\ calls' = calls \o <<Ev("cKzg.computeKzgProof", "call"), Ev("call", "call")>>
  /\ inflight' = inflight \cup {"call"}
  /\ log' = Append(log, "### experiment 5")
  /\ pc' = "await call"
  /\ UNCHANGED <<config, error, timeVars, hexVars>>

Experiment5Called ==
  /\ pc = "await call"
  /\ \/ Rejects("call")
     \/ /\ calls' = Append(calls, Ev("call", "return"))
        /\ inflight' = inflight \ {"call"}
        /\ log' = log \o <<"address", "arguments", "result", "", "">>
        /\ pc' = "experiment 6"
        /\ UNCHANGED <<config, error, timeVars, hexVars, locals>>

(***************************************************************************)
(* experiment 6: c kzg against wasm kzg.                                   *)
(***************************************************************************)
\* the two checks of a timing block of experiment 6, proof first
MismatchProofFirst(_commitment, _proof) ==
  IF ~equalHex(_proof, proof) THEN "Proof mismatch"
  ELSE IF ~equalHex(_commitment, commitment) THEN "Commitment mismatch"
  ELSE NoError

\* the two checks of a timing block of experiment 6
Mismatch(_commitment, _proof) ==
  IF ~equalHex(_commitment, commitment) THEN "Commitment mismatch"
  ELSE IF ~equalHex(_proof, proof) THEN "Proof mismatch"
  ELSE NoError

Experiment6Native ==
  /\ pc = "experiment 6"
  /\ \E c \in Commitments, p \in Proofs, hrend \in hrtime :
       LET err == Mismatch(bytesToHex(c), bytesToHex(p))
       IN /\ locals' = ("experiment 6 c kzg" :> [_commitment |-> c, _proof |-> p])
                       @@ Took("c kzg", hrend, err) @@ locals
          /\ log' = Append(log, "### experiment 6")
                        \o (IF err # NoError THEN <<>>
                            ELSE IF script = "index" THEN <<"clang kzg took">>
                            ELSE <<"c kzg took">>)
          /\ ThrowIf(err, "experiment 6 wasm")
  /\ calls' = calls \o <<Ev("cKzg.blobToKzgCommitment", "call"),
                         Ev("cKzg.computeBlobKzgProof", "call")>>
  /\ UNCHANGED <<config, inflight, timeVars, hexVars>>

\* kzg-wasm returns hex strings; index.ts ends here, the other script goes on
Experiment6Wasm ==
  /\ pc = "experiment 6 wasm"
  /\ \E c \in Commitments, p \in Proofs, upper \in BOOLEAN, hrend \in hrtime :
       LET _commitment == IF upper THEN UpperHex(bytesToHex(c)) ELSE bytesToHex(c)
           _proof == IF upper THEN UpperHex(bytesToHex(p)) ELSE bytesToHex(p)
           err == Mismatch(_commitment, _proof)
       IN /\ locals' = ("experiment 6 wasm" :>
                          [_commitment |-> _commitment, _proof |-> _proof])
                       @@ Took("wasm kzg", hrend, err) @@ locals
          /\ log' = log \o (IF err # NoError THEN <<>>
                            ELSE IF script = "index" THEN <<"wasm kzg took">>
                            ELSE <<"wasm kzg took", "", "">>)
          /\ ThrowIf(err, IF script = "index" THEN "done" ELSE "experiment 7")
  /\ calls' = calls \o <<Ev("wasmKzg.blobToKZGCommitment", "call"),
                         Ev("wasmKzg.computeBlobKZGProof", "call")>>
  /\ UNCHANGED <<config, inflight, timeVars, hexVars>>

(***************************************************************************)
(* experiment 7: verify cell kzg proof batch.                              *)
(***************************************************************************)
\* cKzg.CELLS_PER_EXT_BLOB
CELLS_PER_EXT_BLOB ==
  128

\* the cells cKzg.computeCellsAndKzgProofs returns for the blob
Cells ==
  [i \in 0..(CELLS_PER_EXT_BLOB - 1) |-> [k \in 1..CellLen |-> (3 * i + k + 160) % 256]]

\* Array.from({ length: cKzg.CELLS_PER_EXT_BLOB }, (_, i) => i)
Indices ==
  [i \in 0..(CELLS_PER_EXT_BLOB - 1) |-> i]

\* Array.prototype.slice(from, to) on an array of length >= to
Slice(a, from, to) ==
  [i \in 0..(to - from - 1) |-> a[from + i]]

\* the same step without its `if (!isValid) throw`
Experiment7NotThrowing ==
  /\ pc = "experiment 7"
  /\ \E isValid \in BOOLEAN :
       /\ locals' = ("experiment 7" :> [isValid |-> isValid]) @@ locals
       /\ log' = log \o <<"### experiment 7", "proof verification succeeded", "", "">>
  /\ calls' = calls \o <<Ev("cKzg.computeCellsAndKzgProofs", "call"),
                         Ev("cKzg.verifyCellKzgProofBatch", "call")>>
  /\ pc' = "experiment 8"
  /\ UNCHANGED <<config, error, inflight, timeVars, hexVars>>

Experiment7 ==
  /\ pc = "experiment 7"
  /\ \E isValid \in BOOLEAN :
       /\ locals' = ("experiment 7" :> [isValid |-> isValid]) @@ locals
       /\ log' = Append(log, "### experiment 7")
                     \o (IF isValid THEN <<"proof verification succeeded", "", "">>
                                    ELSE <<>>)
       /\ ThrowIf(IF isValid THEN NoError ELSE "Proof verification failed", "experiment 8")
  /\ calls' = calls \o <<Ev("cKzg.computeCellsAndKzgProofs", "call"),
                         Ev("cKzg.verifyCellKzgProofBatch", "call")>>
  /\ UNCHANGED <<config, inflight, timeVars, hexVars>>

(***************************************************************************)
(* experiment 8: recover cells.                                            *)
(***************************************************************************)
\* indices at which cKzg.recoverCellsAndKzgProofs may return a wrong cell
FaultyIndices ==
  {0, 63, 64, 127}

\* a cell that differs from c in every byte
Corrupted(c) ==
  [k \in 1..Len(c) |-> (c[k] + 1) % 256]

\* the smallest i in 0..n-1 at which the loop body throws, -1 if there is none
FirstMismatchBelow(recoveredCells, _cells, n) ==
  LET differing == {i \in 0..(n - 1) :
                      ~equalHex(bytesToHex(recoveredCells[i]), bytesToHex(_cells[i]))}
  IN IF differing = {} THEN -1
     ELSE CHOOSE i \in differing : \A j \in differing : i <= j

\* the loop checking only the cells that were missing
FirstMismatchMissingOnly(recoveredCells, _cells) ==
  FirstMismatchBelow(recoveredCells, _cells, 64)

\* for (let i = 0; i < cKzg.CELLS_PER_EXT_BLOB; i++) if (!equalHex(...)) throw:
\* the index at which the loop throws, -1 if it runs to its end
FirstMismatch(recoveredCells, _cells) ==
  FirstMismatchBelow(recoveredCells, _cells, CELLS_PER_EXT_BLOB)

\* indices.slice(64, 128), _cells.slice(64, 128)
RecoverArguments(indices, _cells) ==
  [indices |-> Slice(indices, 64, 128), cells |-> Slice(_cells, 64, 128)]

Experiment8 ==
  /\ pc = "experiment 8"
  /\ \E faulty \in SUBSET FaultyIndices :
       LET recoveredCells == [i \in DOMAIN Cells |->
                                IF i \in faulty THEN Corrupted(Cells[i]) ELSE Cells[i]]
           at == FirstMismatch(recoveredCells, Cells)
       IN /\ locals' = ("experiment 8" :>
                          [given |-> RecoverArguments(Indices, Cells),
                           recoveredCells |-> recoveredCells,
                           thrownAt |-> at]) @@ locals
          /\ log' = log \o <<"### experiment 8", "blob data size", "cells number",
                             "cells data size", "cells data size to restore">>
                        \o (IF at = -1 THEN <<"cells recovered successfully">> ELSE <<>>)
          /\ ThrowIf(IF at = -1 THEN NoError ELSE "Cell mismatch", "done")
  /\ calls' = calls \o <<Ev("cKzg.computeCellsAndKzgProofs", "call"),
                         Ev("cKzg.recoverCellsAndKzgProofs", "call")>>
  /\ UNCHANGED <<config, inflight, timeVars, hexVars>>

(***************************************************************************)
(* The ethers script: main.                                                *)
(***************************************************************************)
\* const privateKey = process.env.PRIVATE_KEY || ''; main() up to `await loadKZG()`
main ==
  /\ pc = "start"
  /\ script = "ethers"
  /\ log' = Append(log, "testing")
  /\ calls' = Append(calls, Ev("loadKZG", "call"))
  /\ inflight' = inflight \cup {"loadKZG"}
  /\ pc' = "await loadKZG"
  /\ UNCHANGED <<config, error, timeVars, hexVars, locals>>

\* new JsonRpcProvider, new Wallet(privateKey, provider), `await provider.getFeeData()`;
\* the Wallet constructor throws on a key that is not 32 bytes
mainLoadedKZG ==
  /\ pc = "await loadKZG"
  /\ entry = "main"
  /\ \/ Rejects("loadKZG")
     \/ /\ inflight' = IF privateKeySet THEN (inflight \ {"loadKZG"}) \cup {"getFeeData"}
                                        ELSE inflight \ {"loadKZG"}
        /\ calls' = calls \o <<Ev("loadKZG", "return"), Ev("JsonRpcProvider", "call"),
                               Ev("Wallet", "call")>>
                          \o (IF privateKeySet THEN <<Ev("getFeeData", "call")>> ELSE <<>>)
        /\ ThrowIf(IF privateKeySet THEN NoError ELSE "invalid private key",
                   "await getFeeData")
        /\ UNCHANGED <<config, log, timeVars, hexVars, locals>>

\* the transaction's fields, then `await provider.getTransactionCount(...)`
mainFeeData ==
  /\ pc = "await getFeeData"
  /\ \/ Rejects("getFeeData")
     \/ /\ inflight' = (inflight \ {"getFeeData"}) \cup {"getTransactionCount"}
        /\ calls' = calls \o <<Ev("getFeeData", "return"),
                               Ev("getTransactionCount", "call")>>
        /\ pc' = "await getTransactionCount"
        /\ UNCHANGED <<config, error, log, timeVars, hexVars, locals>>

\* `BYTES_PER_FIELD_ELEMENT`
BYTES_PER_FIELD_ELEMENT ==
  32

\* `FIELD_ELEMENTS_PER_BLOB`
FIELD_ELEMENTS_PER_BLOB ==
  4096

\* new Uint8Array(n): n zero bytes; the byte at offset k is element k + 1
Uint8Array(n) ==
  [i \in 1..n |-> 0]

\* the copy that starts one byte late
Uint8ArraySetShifted(array, data, offset) ==
  [i \in DOMAIN array |->
     IF i > offset + 1 /\ i <= offset + 1 + Len(data) THEN data[i - offset - 1] ELSE array[i]]

\* Uint8Array.prototype.set(data, offset), data fitting in the array
Uint8ArraySet(array, data, offset) ==
  [i \in DOMAIN array |->
     IF i > offset /\ i <= offset + Len(data) THEN data[i - offset] ELSE array[i]]

\* toUtf8Bytes('Long live the BLOBs!')
Payload ==
  <<76, 111, 110, 103, 32, 108, 105, 118, 101, 32,
    116, 104, 101, 32, 66, 76, 79, 66, 115, 33>>

\* if (eip === '7594') tx.blobWrapperVersion = 1; <<>> is a field left unset
blobWrapperVersion(e) ==
  IF e = "7594" THEN <<1>> ELSE <<>>

\* if (eip === '4844') the blob proof, else the concatenated cell proofs
SidecarProof(e) ==
  IF e = "4844" THEN "computeBlobKZGProof" ELSE "concat(computeCellsAndKZGProofs.proofs)"

\* the blob fields, the blob, its commitment and proof, then `await wallet.signTransaction(tx)`
mainNonce ==
  /\ pc = "await getTransactionCount"
  /\ \/ Rejects("getTransactionCount")
     \/ /\ inflight' = (inflight \ {"getTransactionCount"}) \cup {"signTransaction"}
        /\ calls' = calls \o <<Ev("getTransactionCount", "return"),
                               Ev("kzg.blobToKZGCommitment", "call"),
                               Ev(IF eip = "4844" THEN "kzg.computeBlobKZGProof"
                                                  ELSE "kzg.computeCellsAndKZGProofs", "call"),
                               Ev("signTransaction", "call")>>
        /\ locals' = ("main" :>
                        [blobWrapperVersion |-> blobWrapperVersion(eip),
                         blob |-> Uint8ArraySet(Uint8Array(BYTES_PER_FIELD_ELEMENT
                                                             * FIELD_ELEMENTS_PER_BLOB),
                                                Payload, 0),
                         proof |-> SidecarProof(eip)])
                     @@ locals
        /\ pc' = "await signTransaction"
        /\ UNCHANGED <<config, error, log, timeVars, hexVars>>

\* `await provider.send('eth_sendRawTransaction', [rawTx])`
mainSigned ==
  /\ pc = "await signTransaction"
  /\ entry = "main"
  /\ \/ Rejects("signTransaction")
     \/ /\ inflight' = (inflight \ {"signTransaction"}) \cup {"eth_sendRawTransaction"}
        /\ calls' = calls \o <<Ev("signTransaction", "return"),
                               Ev("eth_sendRawTransaction", "call")>>
        /\ pc' = "await eth_sendRawTransaction"
        /\ UNCHANGED <<config, error, log, timeVars, hexVars, locals>>

mainSent ==
  /\ pc = "await eth_sendRawTransaction"
  /\ \/ Rejects("eth_sendRawTransaction")
     \/ /\ inflight' = inflight \ {"eth_sendRawTransaction"}
        /\ calls' = Append(calls, Ev("eth_sendRawTransaction", "return"))
        /\ log' = log \o <<"rawTx.length", "res">>
        /\ pc' = "done"
        /\ UNCHANGED <<config, error, timeVars, hexVars, locals>>

(***************************************************************************)
(* The kzg-wasm scripts: signRawTransaction, signTransaction,              *)
(* KZGProofVerification, makeBlobVersionedHashes.                          *)
(***************************************************************************)
\* privateKeyToAccount, createWalletClient, `await loadKZG()`
signRawTransaction ==
  /\ pc = "signRawTransaction"
  /\ calls' = calls \o <<Ev("privateKeyToAccount", "call"),
                         Ev("createWalletClient", "call"), Ev("loadKZG", "call")>>
  /\ inflight' = inflight \cup {"loadKZG"}
  /\ pc' = "await loadKZG"
  /\ UNCHANGED <<config, error, log, timeVars, hexVars, locals>>

\* toBlobs, the adapters, `await client.prepareTransactionRequest`
signRawTransactionLoadedKZG ==
  /\ pc = "await loadKZG"
  /\ entry = "signRawTransaction"
  /\ \/ Rejects("loadKZG")
     \/ /\ inflight' = (inflight \ {"loadKZG"}) \cup {"prepareTransactionRequest"}
        /\ calls' = calls \o <<Ev("loadKZG", "return"), Ev("toBlobs", "call"),
                               Ev("prepareTransactionRequest", "call")>>
        /\ pc' = "await prepareTransactionRequest"
        /\ UNCHANGED <<config, error, log, timeVars, hexVars, locals>>

\* `await account.signTransaction(request)`
signRawTransactionPrepared ==
  /\ pc = "await prepareTransactionRequest"
  /\ entry = "signRawTransaction"
  /\ \/ Rejects("prepareTransactionRequest")
     \/ /\ inflight' = (inflight \ {"prepareTransactionRequest"}) \cup {"signTransaction"}
        /\ calls' = calls \o <<Ev("prepareTransactionRequest", "return"),
                               Ev("signTransaction", "call")>>
        /\ pc' = "await signTransaction"
        /\ UNCHANGED <<config, error, log, timeVars, hexVars, locals>>

\* `await client.sendRawTransaction`
signRawTransactionSigned ==
  /\ pc = "await signTransaction"
  /\ entry = "signRawTransaction"
  /\ \/ Rejects("signTransaction")
     \/ /\ inflight' = (inflight \ {"signTransaction"}) \cup {"sendRawTransaction"}
        /\ calls' = calls \o <<Ev("signTransaction", "return"),
                               Ev("sendRawTransaction", "call")>>
        /\ pc' = "await sendRawTransaction"
        /\ UNCHANGED <<config, error, log, timeVars, hexVars, locals>>

signRawTransactionSent ==
  /\ pc = "await sendRawTransaction"
  /\ entry = "signRawTransaction"
  /\ \/ Rejects("sendRawTransaction")
     \/ /\ inflight' = inflight \ {"sendRawTransaction"}
        /\ calls' = Append(calls, Ev("sendRawTransaction", "return"))
        /\ log' = Append(log, "Transaction sent")
        /\ pc' = "done"
        /\ UNCHANGED <<config, error, timeVars, hexVars, locals>>

\* privateKeyToAccount, createWalletClient, `await loadKZG()`
signTransaction ==
  /\ pc = "signTransaction"
  /\ calls' = calls \o <<Ev("privateKeyToAccount", "call"),
                         Ev("createWalletClient", "call"), Ev("loadKZG", "call")>>
  /\ inflight' = inflight \cup {"loadKZG"}
  /\ pc' = "await loadKZG"
  /\ UNCHANGED <<config, error, log, timeVars, hexVars, locals>>

\* toBlobs, the adapters, `await client.sendTransaction`
signTransactionLoadedKZG ==
  /\ pc = "await loadKZG"
  /\ entry = "signTransaction"
  /\ \/ Rejects("loadKZG")
     \/ /\ inflight' = (inflight \ {"loadKZG"}) \cup {"sendTransaction"}
        /\ calls' = calls \o <<Ev("loadKZG", "return"), Ev("toBlobs", "call"),
                               Ev("sendTransaction", "call")>>
        /\ pc' = "await sendTransaction"
        /\ UNCHANGED <<config, error, log, timeVars, hexVars, locals>>

signTransactionSent ==
  /\ pc = "await sendTransaction"
  /\ \/ Rejects("sendTransaction")
     \/ /\ inflight' = inflight \ {"sendTransaction"}
        /\ calls' = Append(calls, Ev("sendTransaction", "return"))
        /\ log' = Append(log, "Transaction sent")
        /\ pc' = "done"
        /\ UNCHANGED <<config, error, timeVars, hexVars, locals>>

\* `await loadKZG()`
KZGProofVerification ==
  /\ pc = "KZGProofVerification"
  /\ calls' = Append(calls, Ev("loadKZG", "call"))
  /\ inflight' = inflight \cup {"loadKZG"}
  /\ pc' = "await loadKZG"
  /\ UNCHANGED <<config, error, log, timeVars, hexVars, locals>>

\* commitment, proof, verifyBlobKZGProof; the result is logged
KZGProofVerificationLoadedKZG ==
  /\ pc = "await loadKZG"
  /\ entry = "KZGProofVerification"
  /\ \/ Rejects("loadKZG")
     \/ \E isValid \in BOOLEAN :
          /\ inflight' = inflight \ {"loadKZG"}
          /\ calls' = calls \o <<Ev("loadKZG", "return"), Ev("toBlobs", "call"),
                                 Ev("kzg.blobToKZGCommitment", "call"),
                                 Ev("kzg.computeBlobKZGProof", "call"),
                                 Ev("kzg.verifyBlobKZGProof", "call")>>
          /\ locals' = ("KZGProofVerification" :> [isValid |-> isValid]) @@ locals
          /\ log' = Append(log, IF isValid THEN "Blob existence validated: true"
                                           ELSE "Blob existence validated: false")
          /\ pc' = "done"
          /\ UNCHANGED <<config, error, timeVars, hexVars>>

\* `await loadKZG()`
makeBlobVersionedHashes ==
  /\ pc = "makeBlobVersionedHashes"
  /\ calls' = Append(calls, Ev("loadKZG", "call"))
  /\ inflight' = inflight \cup {"loadKZG"}
  /\ pc' = "await loadKZG"
  /\ UNCHANGED <<config, error, log, timeVars, hexVars, locals>>

\* the commitment of blob 0, versioned_hash = sha256(commitment), account and client,
\* `await client.prepareTransactionRequest`
makeBlobVersionedHashesLoadedKZG ==
  /\ pc = "await loadKZG"
  /\ entry = "makeBlobVersionedHashes"
  /\ \/ Rejects("loadKZG")
     \/ \E c \in Commitments :
          /\ inflight' = (inflight \ {"loadKZG"}) \cup {"prepareTransactionRequest"}
          /\ calls' = calls \o <<Ev("loadKZG", "return"), Ev("toBlobs", "call"),
                                 Ev("kzg.blobToKZGCommitment", "call"),
                                 Ev("privateKeyToAccount", "call"),
                                 Ev("createWalletClient", "call"),
                                 Ev("prepareTransactionRequest", "call")>>
          /\ locals' = ("makeBlobVersionedHashes" :>
                          [commitment |-> c,
                           versioned_hash |-> bytesToHex(sha256(hexToBytes(bytesToHex(c))))])
                       @@ locals
          /\ pc' = "await prepareTransactionRequest"
          /\ UNCHANGED <<config, error, log, timeVars, hexVars>>

\* both hashes are logged
makeBlobVersionedHashesPrepared ==
  /\ pc = "await prepareTransactionRequest"
  /\ entry = "makeBlobVersionedHashes"
  /\ \/ Rejects("prepareTransactionRequest")
     \/ /\ inflight' = inflight \ {"prepareTransactionRequest"}
        /\ calls' = Append(calls, Ev("prepareTransactionRequest", "return"))
        /\ log' = log \o <<"request.blobVersionedHashes[0]", "versioned_hash">>
        /\ pc' = "done"
        /\ UNCHANGED <<config, error, timeVars, hexVars, locals>>

Next ==
  \/ CheckPrivateKey
  \/ Setup
  \/ LoadedKZG
  \/ Experiment1
  \/ Experiment1Prepared
  \/ Experiment1Signed
  \/ Experiment1Sent
  \/ Experiment1Delayed
  \/ Experiment1Fetched
  \/ Experiment2
  \/ Experiment3WithoutProof
  \/ Experiment3WithProof
  \/ Experiment4
  \/ Experiment5
  \/ Experiment5Called
  \/ Experiment6Native
  \/ Experiment6Wasm
  \/ Experiment7
  \/ Experiment8
  \/ main
  \/ mainLoadedKZG
  \/ mainFeeData
  \/ mainNonce
  \/ mainSigned
  \/ mainSent
  \/ signRawTransaction
  \/ signRawTransactionLoadedKZG
  \/ signRawTransactionPrepared
  \/ signRawTransactionSigned
  \/ signRawTransactionSent
  \/ signTransaction
  \/ signTransactionLoadedKZG
  \/ signTransactionSent
  \/ KZGProofVerification
  \/ KZGProofVerificationLoadedKZG
  \/ makeBlobVersionedHashes
  \/ makeBlobVersionedHashesLoadedKZG
  \/ makeBlobVersionedHashesPrepared

Spec ==
  Init /\ [][Next]_vars

(***************************************************************************)
(* Vocabulary of the properties.                                           *)
(***************************************************************************)
Logged(line) ==
  \E k \in 1..Len(log) : log[k] = line

Called(name, phase) ==
  \E k \in 1..Len(calls) : calls[k] = Ev(name, phase)

CountCalls(name, phase) ==
  Cardinality({k \in 1..Len(calls) : calls[k] = Ev(name, phase)})

\* the block has run its library calls (and may have thrown at one of its checks)
Ran(block) ==
  block \in DOMAIN locals

\* the calls that are awaited
AsyncCalls ==
  {"loadKZG", "prepareTransactionRequest", "signTransaction", "sendRawTransaction",
   "timeout", "getTransaction", "call", "getFeeData", "getTransactionCount",
   "eth_sendRawTransaction", "sendTransaction"}

\* sha256 of c with byte 0 replaced by the version tag 0x01
VersionedHashOf(c) ==
  [i \in 1..HashLen |-> IF i = 1 THEN 1 ELSE sha256(c)[i]]

(***************************************************************************)
(* C1: in every script, when PRIVATE_KEY is unset or empty the script      *)
(* throws 'PRIVATE_KEY is not set' before it creates a wallet or an RPC    *)
(* client, loads a KZG backend or makes a network call.  The ethers script *)
(* has no such check: it loads kzg-wasm and creates the provider first.    *)
(***************************************************************************)
C1_MissingKeyThrowsFirst ==
  ~privateKeySet =>
    /\ calls = <<>>
    /\ pc \in {"start", "thrown"}
    /\ pc = "thrown" => error = "PRIVATE_KEY is not set"

(***************************************************************************)
(* C2: in experimentWithBlob, once a check has thrown or an awaited call   *)
(* has rejected, nothing more happens: no library call, no log line, no    *)
(* change of position, and no second attempt of the failed step.           *)
(***************************************************************************)
C2_FailureIsFinal ==
  [][(IsExperiment /\ error # NoError) => (pc = "thrown" /\ UNCHANGED vars)]_vars

C2_Witness ==
  /\ IsExperiment
  /\ pc = "thrown"
  /\ error = "Commitment mismatch"
  /\ Ran("experiment 6 wasm")

(***************************************************************************)
(* C3, as claimed: every proof verification that returns false makes the   *)
(* script throw (experiments 3, 4 and 7, and KZGProofVerification).        *)
(***************************************************************************)
C3_EveryFalseVerificationThrows ==
  \A b \in {"experiment 3 with proof", "experiment 4", "experiment 7",
            "KZGProofVerification"} :
    (Ran(b) /\ ~locals[b].isValid) => pc = "thrown"

(***************************************************************************)
(* C3, amended: a false result of verifyBlobKzgProof (experiment 3) or of  *)
(* verifyCellKzgProofBatch (experiment 7) makes the script throw; the      *)
(* result of verifyKzgProof (experiment 4) and of verifyBlobKZGProof       *)
(* (KZGProofVerification) is only logged, and the script goes on to its    *)
(* next step whether it is true or false.                                  *)
(***************************************************************************)
C3_FalseVerificationThrowsIn3And7 ==
  /\ (Ran("experiment 3 with proof") /\ ~locals["experiment 3 with proof"].isValid) =>
       /\ pc = "thrown"
       /\ error \in {"Proof verification failed", "Versioned hash mismatch"}
       /\ ~Ran("experiment 4")
  /\ (Ran("experiment 7") /\ ~locals["experiment 7"].isValid) =>
       /\ pc = "thrown"
       /\ error = "Proof verification failed"
       /\ ~Ran("experiment 8")
  /\ (Ran("experiment 4") /\ ~Ran("experiment 5")) =>
       /\ pc = "experiment 5"
       /\ error = NoError
       /\ Logged(IF locals["experiment 4"].isValid THEN "result: true" ELSE "result: false")
  /\ Ran("KZGProofVerification") =>
       /\ pc = "done"
       /\ error = NoError
       /\ Logged(IF locals["KZGProofVerification"].isValid
                 THEN "Blob existence validated: true"
                 ELSE "Blob existence validated: false")

C3_Witness ==
  /\ Ran("experiment 7")
  /\ ~locals["experiment 7"].isValid
  /\ ~locals["experiment 4"].isValid
  /\ error = "Proof verification failed"

(***************************************************************************)
(* C4: experimentWithBlob gets past experiment 2, and past each timing     *)
(* block of experiment 3, only if the hash derived by hand (sha256 of the  *)
(* commitment, byte 0 replaced by 0x01) is the versioned hash of the       *)
(* prepared request; when the two differ the block throws a versioned hash *)
(* mismatch.  The hashes are compared as byte strings.                     *)
(***************************************************************************)
C4_VersionedHashGate ==
  /\ Ran("experiment 2") =>
       IF hexToBytes(versionedHash) = VersionedHashOf(locals["experiment 2"].commitment)
       THEN Ran("experiment 3 without proof") \/ pc = "experiment 3"
       ELSE pc = "thrown" /\ error = "versioned hash mismatch"
                          /\ ~Ran("experiment 3 without proof")
  /\ Ran("experiment 3 without proof") =>
       IF hexToBytes(versionedHash)
            = VersionedHashOf(locals["experiment 3 without proof"].commitment)
       THEN Ran("experiment 3 with proof") \/ pc = "experiment 3 with proof"
       ELSE pc = "thrown" /\ error = "Versioned hash mismatch"
                          /\ ~Ran("experiment 3 with proof")
  /\ Ran("experiment 3 with proof") =>
       IF hexToBytes(versionedHash) = VersionedHashOf(hexToBytes(commitment))
       THEN Ran("experiment 4") \/ pc = "experiment 4"
            \/ (pc = "thrown" /\ error = "Proof verification failed")
       ELSE pc = "thrown" /\ error = "Versioned hash mismatch" /\ ~Ran("experiment 4")

C4_Witness ==
  /\ Ran("experiment 4")
  /\ versionedHash # toLowerCase(versionedHash)
  /\ hexToBytes(versionedHash) = VersionedHashOf(locals["experiment 2"].commitment)

(***************************************************************************)
(* C5: experiment 6 completes only if the commitment and the proof of      *)
(* c-kzg and of kzg-wasm both equal those of experiment 1, hence each      *)
(* other; a block whose commitment differs throws 'Commitment mismatch',   *)
(* one whose commitment agrees and whose proof differs 'Proof mismatch'.   *)
(***************************************************************************)
C5_BackendsAgree ==
  /\ Ran("experiment 6 c kzg") =>
       LET l == locals["experiment 6 c kzg"]
       IN IF l._commitment # hexToBytes(commitment)
          THEN pc = "thrown" /\ error = "Commitment mismatch" /\ ~Ran("experiment 6 wasm")
          ELSE IF l._proof # hexToBytes(proof)
          THEN pc = "thrown" /\ error = "Proof mismatch" /\ ~Ran("experiment 6 wasm")
          ELSE Ran("experiment 6 wasm") \/ pc = "experiment 6 wasm"
  /\ Ran("experiment 6 wasm") =>
       LET l == locals["experiment 6 wasm"]
           n == locals["experiment 6 c kzg"]
           completed == Ran("experiment 7") \/ pc \in {"experiment 7", "done"}
       IN IF hexToBytes(l._commitment) # hexToBytes(commitment)
          THEN pc = "thrown" /\ error = "Commitment mismatch" /\ ~completed
          ELSE IF hexToBytes(l._proof) # hexToBytes(proof)
          THEN pc = "thrown" /\ error = "Proof mismatch" /\ ~completed
          ELSE /\ completed
               /\ hexToBytes(l._commitment) = n._commitment
               /\ hexToBytes(l._proof) = n._proof

C5_Witness ==
  /\ script = "index"
  /\ pc = "done"
  /\ Logged("wasm kzg took")
  /\ locals["experiment 6 wasm"]._commitment # commitment

(***************************************************************************)
(* C6: in experiment 8 recovery is given cells 64..127 with the indices    *)
(* 64..127 and nothing else; 'cells recovered successfully' is logged only *)
(* if every recovered cell i in 0..CELLS_PER_EXT_BLOB-1 equals the cell    *)
(* computed at i; otherwise the run throws 'Cell mismatch' at the first    *)
(* index where they differ.                                                *)
(***************************************************************************)
C6_RecoveredCellsEqual ==
  Ran("experiment 8") =>
    LET l == locals["experiment 8"]
        differing == {i \in 0..127 : l.recoveredCells[i] # Cells[i]}
    IN /\ l.given.indices = [i \in 0..63 |-> 64 + i]
       /\ l.given.cells = [i \in 0..63 |-> Cells[64 + i]]
       /\ DOMAIN l.recoveredCells = 0..127
       /\ IF differing = {}
          THEN pc = "done" /\ error = NoError /\ Logged("cells recovered successfully")
          ELSE /\ pc = "thrown"
               /\ error = "Cell mismatch"
               /\ ~Logged("cells recovered successfully")
               /\ l.thrownAt \in differing
               /\ \A j \in differing : l.thrownAt <= j

C6_Witness ==
  /\ Ran("experiment 8")
  /\ Logged("cells recovered successfully")
  /\ pc = "done"

(***************************************************************************)
(* C7: every versioned hash the scripts derive by hand from a commitment   *)
(* (experiments 2 and 3, makeBlobVersionedHashes) has byte 0 equal to 0x01 *)
(* and bytes 1.. equal to those of sha256(commitment).                     *)
(* makeBlobVersionedHashes leaves byte 0 as sha256 gives it.               *)
(***************************************************************************)
C7_DerivedHashesCarryVersion ==
  /\ \A b \in {"experiment 2", "experiment 3 without proof"} :
       Ran(b) => locals[b]._versionedHash = VersionedHashOf(locals[b].commitment)
  /\ Ran("experiment 3 with proof") =>
       locals["experiment 3 with proof"]._versionedHash
         = VersionedHashOf(hexToBytes(commitment))
  /\ Ran("makeBlobVersionedHashes") =>
       hexToBytes(locals["makeBlobVersionedHashes"].versioned_hash)
         = VersionedHashOf(locals["makeBlobVersionedHashes"].commitment)

(***************************************************************************)
(* C8: within one run of experimentWithBlob the experiments are entered in *)
(* the order 1, 2, 3, ..., at most one awaited call is in progress at any  *)
(* time, and nothing is called between the issue of an awaited call and    *)
(* its settling.                                                           *)
(***************************************************************************)
ExperimentHeaders ==
  <<"### experiment 1", "### experiment 2", "### experiment 3", "### experiment 4",
    "### experiment 5", "### experiment 6", "### experiment 7", "### experiment 8">>

IsHeader(line) ==
  \E k \in 1..Len(ExperimentHeaders) : ExperimentHeaders[k] = line

C8_OneStepAtATime ==
  IsExperiment =>
    /\ Cardinality(inflight) <= 1
    /\ LET entered == SelectSeq(log, IsHeader)
       IN /\ Len(entered) <= Len(ExperimentHeaders)
          /\ entered = SubSeq(ExperimentHeaders, 1, Len(entered))
    /\ \A k \in 1..Len(calls) :
         (calls[k][2] = "call" /\ calls[k][1] \in AsyncCalls) =>
           IF k = Len(calls)
           THEN inflight = {calls[k][1]}
           ELSE calls[k + 1] \in {Ev(calls[k][1], "return"), Ev(calls[k][1], "reject")}

C8_Witness ==
  /\ script = "experiment"
  /\ inflight = {"call"}
  /\ SelectSeq(log, IsHeader) = SubSeq(ExperimentHeaders, 1, 5)
  /\ CountCalls("getTransaction", "return") = 1

(***************************************************************************)
(* C9: in experiment 1 the transaction is looked up only with              *)
(* sendTransaction true, after sendRawTransaction has returned and after   *)
(* the 5000 ms delay that follows it has elapsed; the delay is taken at    *)
(* most once in any run, exactly once in a run that gets through           *)
(* experiment 1 with sendTransaction true, and never when sendTransaction  *)
(* is false.                                                               *)
(***************************************************************************)
C9_LookupAfterDelay ==
  IsExperiment =>
    /\ CountCalls("timeout", "call") <= 1
    /\ ~sendTransaction =>
         /\ ~Called("timeout", "call")
         /\ ~Called("getTransaction", "call")
         /\ clock = 0
    /\ \A k \in 1..Len(calls) :
         calls[k] = Ev("getTransaction", "call") =>
           /\ sendTransaction
           /\ clock >= 5000
           /\ \E i \in 1..k, j \in 1..k :
                /\ i < j
                /\ calls[i] = Ev("sendRawTransaction", "return")
                /\ calls[j - 1] = Ev("timeout", "call")
                /\ calls[j] = Ev("timeout", "return")
                /\ j = k - 1
    /\ Ran("experiment 2") => CountCalls("timeout", "call") = (IF sendTransaction THEN 1 ELSE 0)

C9_Witness ==
  /\ IsExperiment
  /\ pc = "await getTransaction"
  /\ Called("getTransaction", "call")
  /\ clock = 5000

(***************************************************************************)
(* C10: no network operation is retried.  In any run of any script the     *)
(* signed transaction is broadcast at most once, and experimentWithBlob    *)
(* looks the transaction up at most once; a broadcast or a lookup that     *)
(* fails ends the run.                                                     *)
(***************************************************************************)
Broadcasts ==
  {"sendRawTransaction", "eth_sendRawTransaction", "sendTransaction"}

C10_NoRetry ==
  /\ Cardinality({k \in 1..Len(calls) :
                    calls[k][2] = "call" /\ calls[k][1] \in Broadcasts}) <= 1
  /\ CountCalls("getTransaction", "call") <= 1
  /\ \A k \in 1..Len(calls) :
       (calls[k][2] = "reject" /\ calls[k][1] \in Broadcasts \cup {"getTransaction"}) =>
         /\ k = Len(calls)
         /\ pc = "thrown"
  /\ (Ran("experiment 1") /\ error # NoError /\ ~Ran("experiment 2")) =>
       /\ pc = "thrown"
       /\ calls[Len(calls)] = Ev("getTransaction", "return")

C10_Witness ==
  /\ IsExperiment
  /\ pc = "thrown"
  /\ Called("sendRawTransaction", "reject")
  /\ CountCalls("sendRawTransaction", "call") = 1

(***************************************************************************)
(* C11: experimentWithBlob throws 'Only one blob is assumed in this        *)
(* example' whenever toBlobs yields a number of blobs other than 1, and    *)
(* then nothing but the set-up has been called: no commitment or proof is  *)
(* computed, no transaction prepared or signed, no network call made.      *)
(***************************************************************************)
SetupCalls ==
  {"privateKeyToAccount", "createWalletClient", "createPublicClient",
   "cKzg.loadTrustedSetup", "loadKZG", "wasmKzg.loadTrustedSetup", "toBlobs"}

C11_OnlyOneBlob ==
  Ran("setup") =>
    IF locals["setup"].blobs # 1
    THEN /\ pc = "thrown"
         /\ error = "Only one blob is assumed in this example"
         /\ \A k \in 1..Len(calls) : calls[k][1] \in SetupCalls
         /\ log = <<>>
    ELSE error # "Only one blob is assumed in this example"

C11_Witness ==
  /\ Ran("setup")
  /\ locals["setup"].blobs = 2
  /\ pc = "thrown"

(***************************************************************************)
(* C12: in experiment 1 with sendTransaction true, when the first blob     *)
(* versioned hash of the fetched transaction differs from the request's,   *)
(* the script throws 'Versioned hash mismatch' and experiment 2 never      *)
(* starts; when the two are equal up to the case of their digits the run   *)
(* goes on to experiment 2.                                                *)
(***************************************************************************)
C12_FetchedHashGate ==
  (Ran("experiment 1") /\ locals["experiment 1"].fetched # Undefined) =>
    /\ sendTransaction
    /\ IF hexToBytes(locals["experiment 1"].fetched) = hexToBytes(versionedHash)
       THEN /\ pc = "experiment 2" \/ Ran("experiment 2")
            /\ Logged("note: you can fetch blob data")
       ELSE /\ pc = "thrown"
            /\ error = "Versioned hash mismatch"
            /\ ~Ran("experiment 2")
            /\ ~Logged("### experiment 2")

C12_Witness ==
  /\ Ran("experiment 1")
  /\ Ran("experiment 2")
  /\ locals["experiment 1"].fetched # Undefined
  /\ locals["experiment 1"].fetched # versionedHash
  /\ hexToBytes(locals["experiment 1"].fetched) = hexToBytes(versionedHash)

(***************************************************************************)
(* C13: the blob the ethers script builds has exactly 32 * 4096 = 131072   *)
(* bytes, holds the payload at offsets 0..len(payload)-1 and is zero at    *)
(* every later offset.                                                     *)
(***************************************************************************)
C13_BlobIsPaddedPayload ==
  Ran("main") =>
    LET blob == locals["main"].blob
    IN /\ Len(blob) = 131072
       /\ blob = [i \in 1..131072 |-> IF i <= Len(Payload) THEN Payload[i] ELSE 0]

C13_Witness ==
  /\ Ran("main")
  /\ pc = "await signTransaction"
  /\ locals["main"].blob[Len(Payload)] = 33
  /\ locals["main"].blob[Len(Payload) + 1] = 0

(***************************************************************************)
(* equalHex on its own: the arguments range over every hex string of up to *)
(* MaxHexDigits digits drawn from SampleDigits, and the one step applies   *)
(* the function.                                                           *)
(***************************************************************************)
MaxHexDigits ==
  2

SampleDigits ==
  {"1", "a", "A", "b", "B"}

HexStrings ==
  { <<"0", "x">> \o digits :
      digits \in UNION { [1..k -> SampleDigits] : k \in 0..MaxHexDigits } }

InitEqualHex ==
  /\ script = "equalHex"
  /\ entry = "equalHex"
  /\ privateKeySet = FALSE
  /\ sendTransaction = FALSE
  /\ eip = "none"
  /\ pc = "equalHex"
  /\ error = NoError
  /\ inflight = {}
  /\ calls = <<>>
  /\ log = <<>>
  /\ clock = 0
  /\ timerDue = -1
  /\ versionedHash = <<"0", "x">>
  /\ commitment = <<"0", "x">>
  /\ proof = <<"0", "x">>
  /\ \E a \in HexStrings, b \in HexStrings :
       locals = ("equalHex" :> [a |-> a, b |-> b])

\* return a.toLowerCase() === b.toLowerCase()
ApplyEqualHex ==
  /\ pc = "equalHex"
  /\ pc' = "done"
  /\ locals' = ("equalHex" :> [a |-> locals["equalHex"].a,
                               b |-> locals["equalHex"].b,
                               result |-> equalHex(locals["equalHex"].a,
                                                   locals["equalHex"].b)])
  /\ UNCHANGED <<script, entry, privateKeySet, sendTransaction, eip, error, inflight,
                 calls, log, clock, timerDue, versionedHash, commitment, proof>>

NextEqualHex ==
  ApplyEqualHex

SpecEqualHex ==
  InitEqualHex /\ [][NextEqualHex]_vars

\* a and b have the same length and, position by position, the same
\* character or the two cases of the same letter
SameIgnoringCase(a, b) ==
  /\ Len(a) = Len(b)
  /\ \A i \in 1..Len(a) :
       \/ a[i] = b[i]
       \/ \E n \in 11..16 : {a[i], b[i]} = {HexDigits[n], UpperDigits[n]}

(***************************************************************************)
(* C14 as stated: equalHex(a, b) is true exactly when a and b are the same *)
(* string, also for strings that differ only in the case of a-f.           *)
(***************************************************************************)
C14_LiteralEquality ==
  (script = "equalHex" /\ pc = "done") =>
    (locals["equalHex"].result <=> (locals["equalHex"].a = locals["equalHex"].b))

(***************************************************************************)
(* C14: equalHex(a, b) is true exactly when a and b are equal up to the    *)
(* case of their letters.                                                  *)
(***************************************************************************)
C14_EqualIgnoringCase ==
  (script = "equalHex" /\ pc = "done") =>
    (locals["equalHex"].result
       <=> SameIgnoringCase(locals["equalHex"].a, locals["equalHex"].b))

C14_Witness ==
  /\ script = "equalHex"
  /\ pc = "done"
  /\ locals["equalHex"].a # locals["equalHex"].b
  /\ locals["equalHex"].result

(***************************************************************************)
(* C15: in the ethers script, for every command-line argument, the wrapper *)
(* version is set to 1 exactly when the sidecar proof is the concatenation *)
(* of the cell proofs; otherwise the proof is the single blob proof and   *)
(* the wrapper version is left unset.                                      *)
(***************************************************************************)
C15_WrapperVersionMatchesProof ==
  Ran("main") =>
    IF locals["main"].proof = "concat(computeCellsAndKZGProofs.proofs)"
    THEN locals["main"].blobWrapperVersion = <<1>>
    ELSE /\ locals["main"].proof = "computeBlobKZGProof"
         /\ locals["main"].blobWrapperVersion = <<>>

(***************************************************************************)
(* C16: with sendTransaction false, experiment 1 broadcasts nothing, looks *)
(* nothing up and waits for no delay: the transaction is prepared, signed  *)
(* and logged, and the run goes on to experiment 2 with versionedHash,     *)
(* commitment and proof set.                                               *)
(***************************************************************************)
C16_NoBroadcastWithoutFlag ==
  (IsExperiment /\ ~sendTransaction) =>
    /\ \A k \in 1..Len(calls) :
         calls[k][1] \notin {"sendRawTransaction", "timeout", "getTransaction"}
    /\ timerDue = -1
    /\ clock = 0
    /\ ~Ran("experiment 1")
    /\ Called("signTransaction", "return") =>
         /\ Called("prepareTransactionRequest", "return")
         /\ Logged("transaction")
         /\ Logged("raw transaction")
         /\ Logged("note: please set sendTransaction to true")
         /\ pc = "experiment 2" \/ Logged("### experiment 2")
         /\ versionedHash # <<"0", "x">>
         /\ commitment # <<"0", "x">>
         /\ proof # <<"0", "x">>

C16_Witness ==
  /\ IsExperiment
  /\ ~sendTransaction
  /\ Called("signTransaction", "return")
  /\ Logged("### experiment 2")

\* the steps of experiments 2 to 8
LaterExperiments ==
  {"experiment 2", "experiment 3", "experiment 3 with proof", "experiment 4",
   "experiment 5", "await call", "experiment 6", "experiment 6 wasm",
   "experiment 7", "experiment 8"}

(***************************************************************************)
(* C17: versionedHash, commitment and proof of experimentWithBlob start as *)
(* '0x'; each is assigned once, in experiment 1 (commitment and proof at   *)
(* its start, versionedHash when the prepared request is back), so all     *)
(* three are set when experiment 2 starts; no later experiment changes     *)
(* them, and what experiments 4 and 5 read is the value experiment 1 left. *)
(***************************************************************************)
C17_AssignedOnceInExperiment1 ==
  /\ versionedHash = <<"0", "x">>
  /\ commitment = <<"0", "x">>
  /\ proof = <<"0", "x">>
  /\ [][ /\ versionedHash' # versionedHash =>
              /\ pc = "await prepareTransactionRequest"
              /\ IsExperiment
              /\ versionedHash = <<"0", "x">>
         /\ commitment' # commitment => (pc = "experiment 1" /\ commitment = <<"0", "x">>)
         /\ proof' # proof => (pc = "experiment 1" /\ proof = <<"0", "x">>)
         /\ pc' = "experiment 2" =>
              /\ versionedHash' # <<"0", "x">>
              /\ commitment' # <<"0", "x">>
              /\ proof' # <<"0", "x">>
         /\ pc \in LaterExperiments => UNCHANGED hexVars
         /\ pc = "experiment 4" =>
              locals'["experiment 4"].commitment = hexToBytes(commitment)
         /\ pc = "experiment 5" =>
              locals'["experiment 5"].data
                = concat(<<versionedHash,
                           bytesToHex(locals'["experiment 5"].zBytes),
                           bytesToHex(locals'["experiment 5"].yBytes),
                           commitment,
                           bytesToHex(locals'["experiment 5"].proofBytes)>>)
     ]_vars

C17_Witness ==
  /\ script = "experiment"
  /\ pc = "done"
  /\ Ran("experiment 8")
  /\ versionedHash # <<"0", "x">>
  /\ commitment # <<"0", "x">>
  /\ proof # <<"0", "x">>

\* the digits of a hex value, without its 0x
Digits(hex) ==
  SubSeq(hex, 3, Len(hex))

(***************************************************************************)
(* C18: the call data of experiment 5 is versioned hash, z, y, commitment  *)
(* and proof, in this order (HashLen bytes for each of the first three and *)
(* CommitmentLen bytes for each of the last two: 32 and 48 in the          *)
(* program, 192 bytes in all); y is element 1 and the proof element 0 of   *)
(* the computeKzgProof result, and z, y, commitment and proof are what     *)
(* experiment 4 passed to verifyKzgProof.                                  *)
(***************************************************************************)
C18_PrecompileCallData ==
  Ran("experiment 5") =>
    LET e4 == locals["experiment 4"]
        e5 == locals["experiment 5"]
    IN /\ e5.data = <<"0", "x">> \o Digits(versionedHash)
                                 \o Digits(bytesToHex(e4.zBytes))
                                 \o Digits(bytesToHex(e4.yBytes))
                                 \o Digits(bytesToHex(e4.commitment))
                                 \o Digits(bytesToHex(e4.proofBytes))
       /\ Len(hexToBytes(versionedHash)) = HashLen
       /\ Len(e4.zBytes) = HashLen
       /\ Len(e4.yBytes) = HashLen
       /\ Len(e4.commitment) = CommitmentLen
       /\ Len(e4.proofBytes) = CommitmentLen
       /\ Len(hexToBytes(e5.data)) = 3 * HashLen + 2 * CommitmentLen
       /\ \E PointProof \in PointProofs :
            /\ e5.yBytes = PointProof[2] /\ e4.yBytes = PointProof[2]
            /\ e5.proofBytes = PointProof[1] /\ e4.proofBytes = PointProof[1]

C18_Witness ==
  /\ Ran("experiment 5")
  /\ Called("call", "return")
  /\ locals["experiment 5"].proofBytes = ProofB
  /\ Len(locals["experiment 5"].data) = 2 + 2 * (3 * HashLen + 2 * CommitmentLen)

(***************************************************************************)
(* C19: the duration a timing block of experiment 3 or 6 logs is the whole *)
(* time elapsed between its hrstart and hrend readings, in milliseconds,   *)
(* also when a second or more has elapsed.                                 *)
(***************************************************************************)
C19_LoggedIsElapsed ==
  Ran("timing block") =>
    LET hrend == locals["timing block"].hrend
    IN locals["timing block"].took = hrend[1] * 1000 + hrend[2] \div 1000000

====
